---------------------------- MODULE Spec2Model ----------------------------
(***************************************************************************)
(* A model of trajectory_analysis/trajectory_experiments.py: the shift     *)
(* operators and the conditional-incidence selector built by data_setup,   *)
(* the forward-propagation functions (scone_func, scnn_func_2/3/4,         *)
(* ebli_func, bunch_func) and the control flow of train_model.             *)
(*                                                                         *)
(* Arithmetic is exact integer arithmetic.  Matrices are records           *)
(* [rows, cols, at] so that a matrix with no columns (B2 of a complex      *)
(* without triangles) keeps its shape.  Weight matrices are 1 x 1 (one     *)
(* hidden unit per layer) and are written as integers.  The real-valued    *)
(* tanh is replaced by an odd, monotone, saturating integer function and   *)
(* exp by a power of two: the properties checked below rest on oddness,    *)
(* monotonicity and positivity only.                                       *)
(***************************************************************************)
EXTENDS Integers, Sequences, FiniteSets, TLC

(***************************************************************************)
(* Bounds of the model.                                                    *)
(***************************************************************************)
\* examples per dataset range over 1..MaxExamples
MaxExamples == 7
\* the random orientation flip reverses at most MaxFlipped edges
MaxFlipped == 1
\* weight lists have 0..MaxWeights entries
MaxWeights == 10
\* weight values are generated from the seeds 0..MaxSeed
MaxSeed == 1
\* saturation level of the integer tanh
TanhSat == 2
\* extra padding slots tried beyond the graph's maximum degree
MaxExtraPad == 1

(***************************************************************************)
(* Integer matrices.                                                       *)
(***************************************************************************)
\* the sequence f as an n x 1 column
ColVec(f) ==
    [rows |-> Len(f), cols |-> 1, at |-> [i \in 1..Len(f) |-> <<f[i]>>]]

FromRows(rs, m) ==
    [rows |-> Len(rs), cols |-> m,
     at |-> [i \in 1..Len(rs) |-> [j \in 1..m |-> rs[i][j]]]]

Zeros(n, m) == [rows |-> n, cols |-> m, at |-> [i \in 1..n |-> [j \in 1..m |-> 0]]]

Transpose(A) ==
    [rows |-> A.cols, cols |-> A.rows,
     at |-> [i \in 1..A.cols |-> [j \in 1..A.rows |-> A.at[j][i]]]]

\* sum of f[1..n]
SumSeq(f, n) ==
    LET S[k \in 0..n] == IF k = 0 THEN 0 ELSE S[k - 1] + f[k]
    IN  S[n]

\* A @ B
MatMul(A, B) ==
    [rows |-> A.rows, cols |-> B.cols,
     at |-> [i \in 1..A.rows |-> [j \in 1..B.cols |->
               SumSeq([k \in 1..A.cols |-> A.at[i][k] * B.at[k][j]], A.cols)]]]

\* A + B
MatAdd(A, B) ==
    [rows |-> A.rows, cols |-> A.cols,
     at |-> [i \in 1..A.rows |-> [j \in 1..A.cols |-> A.at[i][j] + B.at[i][j]]]]

\* A @ w for a 1 x 1 weight matrix w
Scale(A, w) ==
    [rows |-> A.rows, cols |-> A.cols,
     at |-> [i \in 1..A.rows |-> [j \in 1..A.cols |-> A.at[i][j] * w]]]

\* np.diag(v)
Diag(v) ==
    [rows |-> Len(v), cols |-> Len(v),
     at |-> [i \in 1..Len(v) |-> [j \in 1..Len(v) |-> IF i = j THEN v[i] ELSE 0]]]

\* a 0-based index of Python/jax into a sequence of length n, negative
\* indices counting from the end, as a 1-based index
PyIndex(i, n) == IF i < 0 THEN i + n + 1 ELSE i + 1

(***************************************************************************)
(* Fixture complexes (what load_dataset returns).  B1 is nodes x edges,    *)
(* B2 is edges x triangles; nodes are numbered from 0.                     *)
(***************************************************************************)
\* a triangle 0,1,2 (filled) with a tail 2-3; edges (0,1),(0,2),(1,2),(2,3)
ComplexA ==
    [B1 |-> FromRows(<< <<-1, -1,  0,  0>>,
                        << 1,  0, -1,  0>>,
                        << 0,  1,  1, -1>>,
                        << 0,  0,  0,  1>> >>, 4),
     B2 |-> FromRows(<< <<1>>, <<-1>>, <<1>>, <<0>> >>, 1),
     nbrs |-> << {1, 2}, {0, 2}, {0, 1, 3}, {2} >>,
     flows |-> << << 1,  0, 1, 0>>, <<1, -1, 0, 0>>, <<0, 0, 1, 1>> >>,
     last |-> <<2, 1, 3>>,
     rev_last |-> <<0, 2, 1>>]

\* the 4-cycle 0-1-2-3-0 without triangles; edges 0->1, 1->2, 2->3, 3->0
ComplexB ==
    [B1 |-> FromRows(<< <<-1,  0,  0,  1>>,
                        << 1, -1,  0,  0>>,
                        << 0,  1, -1,  0>>,
                        << 0,  0,  1, -1>> >>, 4),
     B2 |-> FromRows(<< <<>>, <<>>, <<>>, <<>> >>, 0),
     nbrs |-> << {1, 3}, {0, 2}, {1, 3}, {0, 2} >>,
     flows |-> << <<1, 1, 0, 0>>, <<0, 0, -1, -1>> >>,
     last |-> <<2, 2>>,
     rev_last |-> <<0, 0>>]

Complexes == <<ComplexA, ComplexB>>

\* dataset d holds d examples over one of the fixture complexes
ComplexOf(d) == Complexes[(d % Len(Complexes)) + 1]

\* flow (n_edges x 1) and last node of example i (0-based) of dataset d
FlowOf(d, i) ==
    LET c == ComplexOf(d)
        f == c.flows[(i % Len(c.flows)) + 1]
    IN  ColVec(f)

LastNodeOf(d, i) ==
    LET c == ComplexOf(d) IN c.last[(i % Len(c.last)) + 1]

\* rev_flows_in.npy and rev_last_nodes.npy of dataset d: the flow of example
\* i with its entries negated, and the node the reversed path ends in
RevFlowOf(d, i) ==
    LET f == FlowOf(d, i)
    IN  [rows |-> f.rows, cols |-> 1, at |-> [e \in 1..f.rows |-> <<0 - f.at[e][1]>>]]

RevLastNodeOf(d, i) ==
    LET c == ComplexOf(d) IN c.rev_last[(i % Len(c.rev_last)) + 1]


(***************************************************************************)
(* data_setup: shift operators.                                            *)
(***************************************************************************)
\* L1_lower = B1.T @ B1
lower_of(B1) == MatMul(Transpose(B1), B1)

\* L1_upper = B2 @ B2.T
upper_of(B2) == MatMul(B2, Transpose(B2))

\* F @ L @ F
conjugate(Fm, L) == MatMul(MatMul(Fm, L), Fm)

\* bunch_model_matrices.compute_shift_matrices(B1, B2): the seven operators
\* S_00, S_10, S_01, S_11, S_21, S_12, S_22 between the node, edge and
\* triangle levels, with the shapes bunch_func multiplies them in
compute_shift_matrices(B1, B2) ==
    << MatMul(B1, Transpose(B1)),
       B1,
       Transpose(B1),
       MatAdd(MatMul(Transpose(B1), B1), MatMul(B2, Transpose(B2))),
       B2,
       Transpose(B2),
       MatMul(Transpose(B2), B2) >>

\* a variant that returns the order-3 list with the cube replaced by the square
define_shifts_sq(model, l, u, B1, B2) ==
    LET l2 == MatMul(l, l)
        u2 == MatMul(u, u)
        L1 == MatAdd(l, u)
    IN  CASE model = "scone" -> [raised |-> FALSE, shifts |-> <<l, u>>]
          [] model = "scnn2" -> [raised |-> FALSE, shifts |-> <<l, l2, u, u2>>]
          [] model = "scnn3" -> [raised |-> FALSE, shifts |-> <<l, l2, l2, u, u2, u2>>]
          [] model = "scnn4" ->
                [raised |-> FALSE,
                 shifts |-> <<l, l2, MatMul(l2, l), MatMul(MatMul(l2, l), l),
                              u, u2, MatMul(u2, u), MatMul(MatMul(u2, u), u)>>]
          [] model = "ebli" ->
                [raised |-> FALSE,
                 shifts |-> <<L1, MatMul(L1, L1), MatMul(MatMul(L1, L1), L1)>>]
          [] model = "bunch" ->
                [raised |-> FALSE, shifts |-> compute_shift_matrices(B1, B2)]
          [] OTHER -> [raised |-> TRUE, shifts |-> <<>>]

\* a variant whose final branch falls back to the base operators
define_shifts_fallback(model, l, u, B1, B2) ==
    LET l2 == MatMul(l, l)
        u2 == MatMul(u, u)
        L1 == MatAdd(l, u)
    IN  CASE model = "scnn2" -> [raised |-> FALSE, shifts |-> <<l, l2, u, u2>>]
          [] model = "scnn3" ->
                [raised |-> FALSE,
                 shifts |-> <<l, l2, MatMul(l2, l), u, u2, MatMul(u2, u)>>]
          [] model = "scnn4" ->
                [raised |-> FALSE,
                 shifts |-> <<l, l2, MatMul(l2, l), MatMul(MatMul(l2, l), l),
                              u, u2, MatMul(u2, u), MatMul(MatMul(u2, u), u)>>]
          [] model = "ebli" ->
                [raised |-> FALSE,
                 shifts |-> <<L1, MatMul(L1, L1), MatMul(MatMul(L1, L1), L1)>>]
          [] model = "bunch" ->
                [raised |-> FALSE, shifts |-> compute_shift_matrices(B1, B2)]
          [] OTHER -> [raised |-> FALSE, shifts |-> <<l, u>>]

\* the if/elif chain on HYPERPARAMS['model']: the list of shifts, or the
\* exception 'invalid model type'.  a @ b @ c is (a @ b) @ c.
define_shifts(model, l, u, B1, B2) ==
    LET l2 == MatMul(l, l)
        u2 == MatMul(u, u)
        L1 == MatAdd(l, u)
    IN  CASE model = "scone" -> [raised |-> FALSE, shifts |-> <<l, u>>]
          [] model = "scnn2" -> [raised |-> FALSE, shifts |-> <<l, l2, u, u2>>]
          [] model = "scnn3" ->
                [raised |-> FALSE,
                 shifts |-> <<l, l2, MatMul(l2, l), u, u2, MatMul(u2, u)>>]
          [] model = "scnn4" ->
                [raised |-> FALSE,
                 shifts |-> <<l, l2, MatMul(l2, l), MatMul(MatMul(l2, l), l),
                              u, u2, MatMul(u2, u), MatMul(MatMul(u2, u), u)>>]
          [] model = "ebli" ->
                [raised |-> FALSE,
                 shifts |-> <<L1, MatMul(L1, L1), MatMul(MatMul(L1, L1), L1)>>]
          [] model = "bunch" ->
                [raised |-> FALSE, shifts |-> compute_shift_matrices(B1, B2)]
          [] OTHER -> [raised |-> TRUE, shifts |-> <<>>]

(***************************************************************************)
(* data_setup: neighbourhood table and conditional-incidence selector.     *)
(***************************************************************************)
\* sorted(S) for a set of node ids
sorted(S) ==
    LET R[T \in SUBSET S] ==
            IF T = {} THEN <<>>
            ELSE LET m == CHOOSE x \in T : \A y \in T : x <= y
                 IN  <<m>> \o R[T \ {m}]
    IN  R[S]

\* [v] * k of Python: empty when k <= 0
repeat(v, k) == [j \in 1..k |-> v]

\* max(G_undir.degree, key=lambda x: x[1])[1]
max_degree_of(nbrs) ==
    CHOOSE m \in {Cardinality(nbrs[n]) : n \in 1..Len(nbrs)} :
        \A n \in 1..Len(nbrs) : Cardinality(nbrs[n]) <= m

\* a variant that pads in front of the neighbours
nbrhoods_padfront(nbrs, width) ==
    [n \in 1..Len(nbrs) |->
        repeat(-1, width - Cardinality(nbrs[n])) \o sorted(nbrs[n])]

\* one row per node n in range(max(G_undir.nodes) + 1): the sorted
\* neighbours of n followed by -1 up to the padding width
nbrhoods_of(nbrs, width) ==
    [n \in 1..Len(nbrs) |->
        sorted(nbrs[n]) \o repeat(-1, width - Cardinality(nbrs[n]))]

\* a variant that indexes B1 itself
B1_jax_noappend(B1, flip, Fm) ==
    IF flip # 0 THEN MatMul(B1, Fm) ELSE B1

\* np.append(B1, np.zeros((1, B1.shape[1])), axis=0), then @ F when flipping
B1_jax_of(B1, flip, Fm) ==
    LET app == [rows |-> B1.rows + 1, cols |-> B1.cols,
                at |-> [i \in 1..(B1.rows + 1) |-> [j \in 1..B1.cols |->
                          IF i <= B1.rows THEN B1.at[i][j] ELSE 0]]]
    IN  IF flip # 0 THEN MatMul(app, Fm) ELSE app

\* Bconds_func(n) = B1_jax[nbrhoods[n]]: one row of B1_jax per slot
Bconds_func(B1j, nb, n) ==
    LET Nv == nb[n + 1]
    IN  [rows |-> Len(Nv), cols |-> B1j.cols,
         at |-> [s \in 1..Len(Nv) |-> B1j.at[PyIndex(Nv[s], B1j.rows)]]]

\* the flows of one hop; when flipping, X.reshape((n_flows, n_edges)) @ F
\* reshaped back to (n_flows, n_edges, 1)
flows_of(d, flip, Fm) ==
    [i \in 1..d |->
        IF flip # 0 THEN Transpose(MatMul(Transpose(FlowOf(d, i - 1)), Fm))
        ELSE FlowOf(d, i - 1)]

\* E of lines 372-376: per edge (column of B1) the pair of its end nodes,
\* ascending, nodes numbered from 0
edges_of(B1) ==
    [e \in 1..B1.cols |-> sorted({n - 1 : n \in {k \in 1..B1.rows : B1.at[k][e] # 0}})]

\* synthetic_data_gen.flow_to_path(flow, E, last_node): the nodes of the
\* path the flow encodes, ending in last_node.  An edge (a, b) of E carries
\* the path from a to b when its flow entry is positive, from b to a when
\* negative.
RECURSIVE path_into(_, _, _, _)
path_into(flow, E, node, seen) ==
    LET into == {e \in (1..Len(E)) \ seen :
                    \/ flow.at[e][1] > 0 /\ E[e][2] = node
                    \/ flow.at[e][1] < 0 /\ E[e][1] = node}
    IN  IF into = {} THEN <<node>>
        ELSE LET e == CHOOSE x \in into : \A y \in into : x <= y
                 prev == IF flow.at[e][1] > 0 THEN E[e][1] ELSE E[e][2]
             IN  Append(path_into(flow, E, prev, seen \cup {e}), node)

flow_to_path(flow, E, last) == path_into(flow, E, last, {})

\* a variant that leaves the last example out
recompute_prefixes_short(X, E, lasts) ==
    [i \in 1..(Len(lasts) - 1) |-> flow_to_path(X[i], E, lasts[i])]

\* the except branch of lines 392-395:
\* [flow_to_path(inputs_all[0][-1][i], E, last_nodes[i]) for i in range(len(last_nodes))]
recompute_prefixes(X, E, lasts) ==
    [i \in 1..Len(lasts) |-> flow_to_path(X[i], E, lasts[i])]

\* the list stored in prefixes.npy, when the file is there
cached_prefixes(d) ==
    [i \in 1..d |-> flow_to_path(FlowOf(d, i - 1), edges_of(ComplexOf(d).B1),
                                  LastNodeOf(d, i - 1))]

\* the sign vectors np.random.choice([1, -1], size=n) can return, with at
\* most MaxFlipped entries -1
FlipChoices(n) ==
    {f \in [1..n -> {1, -1}] : Cardinality({e \in 1..n : f[e] = -1}) <= MaxFlipped}


(***************************************************************************)
(* Forward-propagation functions.                                          *)
(***************************************************************************)
\* a variant of the activation that is not odd
tanh_onesided(x) == IF x > TanhSat THEN TanhSat ELSE IF x < 0 THEN 0 ELSE x

\* tanh: odd, monotone, saturating at +-TanhSat
tanh(x) == IF x > TanhSat THEN TanhSat ELSE IF x < -TanhSat THEN -TanhSat ELSE x

\* relu(x) = np.maximum(x, 0)
relu(x) == IF x > 0 THEN x ELSE 0

\* tanh(cur_out), elementwise
tanh_all(A) ==
    [rows |-> A.rows, cols |-> A.cols,
     at |-> [i \in 1..A.rows |-> [j \in 1..A.cols |-> tanh(A.at[i][j])]]]

\* relu(c), elementwise
relu_all(A) ==
    [rows |-> A.rows, cols |-> A.cols,
     at |-> [i \in 1..A.rows |-> [j \in 1..A.cols |-> relu(A.at[i][j])]]]

\* 2^n for n >= 0
Pow2(n) ==
    LET P[k \in 0..n] == IF k = 0 THEN 1 ELSE 2 * P[k - 1]
    IN  P[n]

\* the smallest entry of a non-empty column
MinOf(v) == CHOOSE m \in {v.at[s][1] : s \in 1..v.rows} :
                \A s \in 1..v.rows : m <= v.at[s][1]

\* a variant that keeps only the largest term of the sum
logsumexp_max(logits) ==
    LET m == MinOf(logits)
        big == CHOOSE x \in {logits.at[s][1] : s \in 1..logits.rows} :
                   \A s \in 1..logits.rows : logits.at[s][1] <= x
    IN  [shift |-> m, den |-> Pow2(big - m)]

\* logsumexp(logits) over the whole vector, as exp(logsumexp(logits) - shift)
\* with exp(x) modelled by 2^x: the normaliser of every slot of logits
logsumexp(logits) ==
    LET m == MinOf(logits)
    IN  [shift |-> m,
         den |-> SumSeq([s \in 1..logits.rows |-> Pow2(logits.at[s][1] - m)],
                        logits.rows)]

\* logits - logsumexp(logits), as the probabilities num[s] / den
log_softmax(logits) ==
    LET z == logsumexp(logits)
    IN  [num |-> [s \in 1..logits.rows |-> Pow2(logits.at[s][1] - z.shift)],
         den |-> z.den]

\* the weights read per layer step: the literal 3, 4 and 7 of scone_func,
\* ebli_func and bunch_func, and n_k = 1 + k1 + k2 of scnn_func_2/3/4
n_k_of(fn, k1, k2) ==
    CASE fn = "scone_func" -> 3
      [] fn = "ebli_func" -> 4
      [] fn = "bunch_func" -> 7
      [] OTHER -> 1 + k1 + k2

\* a variant of the assertion that divides by the number of operators
weights_ok_ops(fn, n, k1, k2) ==
    IF fn = "bunch_func" THEN n % 7 = 0
    ELSE (n - 1) % (n_k_of(fn, k1, k2) - 1) = 0

\* assert n_layers % 1 == 0 for n weights: n_layers is (n - 1) / n_k, and
\* n / 7 in bunch_func
weights_ok(fn, n, k1, k2) ==
    IF fn = "bunch_func" THEN n % 7 = 0
    ELSE (n - 1) % n_k_of(fn, k1, k2) = 0

\* int(n_layers)
n_layers_of(fn, n, k1, k2) ==
    IF fn = "bunch_func" THEN n \div 7
    ELSE (n - 1) \div n_k_of(fn, k1, k2)

\* the operator terms of one layer of a tanh function, in source order: the
\* position of the operator among the function's shift parameters and the
\* offset of its weight
layer_terms(fn) ==
    CASE fn = "scone_func" -> <<[op |-> 1, off |-> 1], [op |-> 2, off |-> 2]>>
      [] fn = "scnn_func_2" ->
            <<[op |-> 1, off |-> 1], [op |-> 2, off |-> 2],
              [op |-> 3, off |-> 3], [op |-> 4, off |-> 4]>>
      [] fn = "scnn_func_3" ->
            <<[op |-> 1, off |-> 1], [op |-> 2, off |-> 2], [op |-> 3, off |-> 3],
              [op |-> 4, off |-> 4], [op |-> 5, off |-> 5], [op |-> 6, off |-> 6]>>
      [] fn = "scnn_func_4" ->
            <<[op |-> 1, off |-> 1], [op |-> 2, off |-> 2], [op |-> 3, off |-> 3],
              [op |-> 8, off |-> 4], [op |-> 5, off |-> 5], [op |-> 6, off |-> 6],
              [op |-> 7, off |-> 7], [op |-> 8, off |-> 8]>>
      [] fn = "ebli_func" ->
            <<[op |-> 1, off |-> 1], [op |-> 2, off |-> 2], [op |-> 3, off |-> 3]>>

\* layer i of a tanh function on the signal cur, with the weights W and the
\* operators S.  Reading a weight beyond the list raises IndexError, after
\* the products to its left.  reads lists the weight indices the layer
\* evaluates, left to right, the one that raises included.
tanh_layer(fn, W, S, cur, i, nk) ==
    LET T == layer_terms(fn)
        idx(t) == i * nk + (IF t = 0 THEN 0 ELSE T[t].off)
        bad == {t \in 0..Len(T) : idx(t) >= Len(W)}
        first_bad == CHOOSE t \in bad : \A b \in bad : t <= b
        w(t) == W[idx(t) + 1]
        Acc[t \in 0..Len(T)] ==
            IF t = 0 THEN Scale(cur, w(0))
            ELSE MatAdd(Acc[t - 1], Scale(MatMul(S[T[t].op], cur), w(t)))
    IN  IF bad # {}
        THEN [raised |-> TRUE, preact |-> cur, cur |-> cur, used |-> <<>>,
              matmuls |-> IF first_bad = 0 THEN 0 ELSE 2 * first_bad,
              reads |-> [t \in 1..(first_bad + 1) |-> idx(t - 1)]]
        ELSE [raised |-> FALSE, preact |-> Acc[Len(T)],
              cur |-> tanh_all(Acc[Len(T)]),
              used |-> [t \in 1..Len(T) |-> [op |-> T[t].op, widx |-> idx(t)]],
              matmuls |-> 1 + 2 * Len(T),
              reads |-> [t \in 1..(Len(T) + 1) |-> idx(t - 1)]]

\* layer i of bunch_func on the node, edge and triangle signals c
bunch_layer(W, S, c, i) ==
    LET w(o) == W[i * 7 + o + 1]
        n0 == MatAdd(Scale(MatMul(S[1], c[1]), w(0)), Scale(MatMul(S[2], c[2]), w(1)))
        n1 == MatAdd(MatAdd(Scale(MatMul(S[3], c[1]), w(2)),
                            Scale(MatMul(S[4], c[2]), w(3))),
                     Scale(MatMul(S[5], c[3]), w(4)))
        n2 == MatAdd(Scale(MatMul(S[6], c[2]), w(5)), Scale(MatMul(S[7], c[3]), w(6)))
    IN  <<relu_all(n0), relu_all(n1), relu_all(n2)>>

\* cur_out before the first layer
initial_signal(fn, S, flow) ==
    IF fn = "bunch_func"
    THEN <<Zeros(S[1].cols, 1), flow, Zeros(S[7].cols, 1)>>
    ELSE <<flow>>

\* the logits: Bcond_func(last_node) @ cur_out @ weights[-1], and
\* nodes_out[nbrhoods[last_node]] in bunch_func
logits_of(fn, W, c, B1j, nb, last) ==
    IF fn = "bunch_func"
    THEN LET Nv == nb[last + 1]
         IN  [rows |-> Len(Nv), cols |-> 1,
              at |-> [s \in 1..Len(Nv) |-> c[1].at[PyIndex(Nv[s], c[1].rows)]]]
    ELSE Scale(MatMul(Bconds_func(B1j, nb, last), c[1]), W[PyIndex(-1, Len(W))])

\* the whole call of a forward function
RECURSIVE run_layers(_, _, _, _, _, _, _)
run_layers(fn, W, S, c, i, n, nk) ==
    IF i = n THEN [raised |-> FALSE, cur |-> c]
    ELSE IF fn = "bunch_func"
         THEN run_layers(fn, W, S, bunch_layer(W, S, c, i), i + 1, n, nk)
         ELSE LET r == tanh_layer(fn, W, S, c[1], i, nk)
              IN  IF r.raised THEN [raised |-> TRUE, cur |-> c]
                  ELSE run_layers(fn, W, S, <<r.cur>>, i + 1, n, nk)

forward(fn, W, k1, k2, S, B1j, nb, last, flow) ==
    IF ~weights_ok(fn, Len(W), k1, k2)
    THEN [status |-> "AssertionError", logits |-> Zeros(0, 1)]
    ELSE LET r == run_layers(fn, W, S, initial_signal(fn, S, flow), 0,
                             n_layers_of(fn, Len(W), k1, k2), n_k_of(fn, k1, k2))
         IN  IF r.raised THEN [status |-> "IndexError", logits |-> Zeros(0, 1)]
             ELSE [status |-> "returned",
                   logits |-> logits_of(fn, W, r.cur, B1j, nb, last)]

\* weight i (0-based) of the list generated from a seed: +1 or -1
WeightAt(seed, i) == IF seed > 0 /\ i % (seed + 1) = seed THEN -1 ELSE 1

(***************************************************************************)
(* train_model: masks and model selection.                                 *)
(***************************************************************************)
\* the masks load_dataset returns for a dataset of n examples
loaded_train_mask(n) == [i \in 1..n |-> IF (i - 1) % 2 = 0 THEN 1 ELSE 0]
loaded_test_mask(n) == [i \in 1..n |-> IF (i - 1) % 2 = 1 THEN 1 ELSE 0]

\* a variant that tests on the middle region
regional_test_mask_mid(n) == [i \in 1..n |-> IF (i - 1) % 3 = 0 THEN 1 ELSE 0]

\* np.array([1 if i % 3 == 1 else 0 for i in range(len(y_1hop))])
regional_train_mask(n) == [i \in 1..n |-> IF (i - 1) % 3 = 1 THEN 1 ELSE 0]

\* np.array([1 if i % 3 == 2 else 0 for i in range(len(y_1hop))])
regional_test_mask(n) == [i \in 1..n |-> IF (i - 1) % 3 = 2 THEN 1 ELSE 0]

\* a variant that picks the order-2 function for scnn3
select_model_func_low(model) ==
    CASE model = "scone" -> "scone_func"
      [] model = "ebli" -> "ebli_func"
      [] model = "bunch" -> "bunch_func"
      [] model = "scnn2" -> "scnn_func_2"
      [] model = "scnn3" -> "scnn_func_2"
      [] model = "scnn4" -> "scnn_func_4"
      [] OTHER -> ""

\* the if/elif chain of train_model: the forward function, or "" when it
\* raises 'invalid model'
select_model_func(model) ==
    CASE model = "scone" -> "scone_func"
      [] model = "ebli" -> "ebli_func"
      [] model = "bunch" -> "bunch_func"
      [] model = "scnn2" -> "scnn_func_2"
      [] model = "scnn3" -> "scnn_func_3"
      [] model = "scnn4" -> "scnn_func_4"
      [] OTHER -> ""

\* the parameters of each forward function that have no default, in the
\* order of its def statement
signature(fn) ==
    CASE fn = "scone_func" ->
            <<"weights", "S_lower", "S_upper", "Bcond_func", "last_node", "flow">>
      [] fn = "scnn_func_2" ->
            <<"weights", "S_lower", "S2_lower", "S_upper", "S2_upper",
              "Bcond_func", "last_node", "flow">>
      [] fn = "scnn_func_3" ->
            <<"weights", "S_lower", "S2_lower", "S3_lower", "S_upper", "S2_upper",
              "S3_upper", "Bcond_func", "last_node", "flow">>
      [] fn = "scnn_func_4" ->
            <<"weights", "S_lower", "S2_lower", "S3_lower", "S4_lower", "S_upper",
              "S2_upper", "S3_upper", "S4_upper", "Bcond_func", "last_node", "flow">>
      [] fn = "ebli_func" ->
            <<"weights", "S", "S2", "S3", "Bcond_func", "last_node", "flow">>
      [] fn = "bunch_func" ->
            <<"weights", "S_00", "S_10", "S_01", "S_11", "S_21", "S_12", "S_22",
              "nbrhoods", "last_node", "flow">>

\* in_axes = tuple(([None] * len(shifts)) + [None, None, 0, 0])
in_axes_of(sh) == repeat("None", Len(sh)) \o <<"None", "None", "0", "0">>

(***************************************************************************)
(* State.                                                                  *)
(***************************************************************************)
VARIABLES
    HYPERPARAMS,  \* the global configuration mapping
    dataset,      \* the dataset on disk: its number of examples
    pc,           \* position of the run in data_setup / train_model
    err,          \* message of the exception that ended the run, or ""
    n_loads,      \* calls of load_dataset so far
    generated,    \* generate_dataset has run
    flips,        \* the sign vector of F, <<>> before it is drawn
    hop,          \* position of the loop over hops
    L1_lower, L1_upper, shifts,
    nbrhoods, B1_jax, n_nbrs,
    inputs_all,   \* per hop: [selector, last_nodes, X]
    train_mask, test_mask,
    model_func,
    n_train,      \* training runs reached (scone.train)
    n_eval,       \* evaluation steps reached (scone.test, two_target_accuracy)
    prefixes,     \* the path prefixes data_setup returns
    prefix_src,   \* "cache" or "recomputed", once prefixes is set
    rev_inputs,   \* [selector, last_nodes, X] passed to the reverse test
    \* one call of the forward function model_func
    fpc,          \* position of the call
    ferr,         \* the exception the call raised, or ""
    weights,      \* the weight list
    example,      \* index of the example the call is applied to
    last_node, flow,
    cur_out,      \* the running signal(s)
    layer,        \* layers completed
    n_matmul,     \* matrix products performed
    preact,       \* pre-activation signal of the last completed layer
    layer_in,     \* input signal of the last completed layer
    used,         \* operator terms of the last completed layer
    logits, out,
    scnn_defaults,\* k1, k2 of scnn_func_2/3/4 as bound when the module was loaded
    calls,        \* calls of model_func started with these arguments
    first,        \* outcome of the first of them, once a second has started
    w_reads       \* weight indices the call has read: [at, widx], at = layer
                  \* number, or -1 for the terminal projection

run_vars == <<HYPERPARAMS, dataset, pc, err, n_loads, generated, flips, hop,
              L1_lower, L1_upper, shifts, nbrhoods, B1_jax, n_nbrs,
              inputs_all, train_mask, test_mask, model_func, n_train, n_eval,
              prefixes, prefix_src, rev_inputs>>

fwd_vars == <<fpc, ferr, weights, example, last_node, flow, cur_out, layer,
              n_matmul, preact, layer_in, used, logits, out, scnn_defaults,
              calls, first, w_reads>>

vars == <<run_vars, fwd_vars>>

\* identifiers tried for HYPERPARAMS['model']; "gcn" is none of the known ones
Models == {"scone", "scnn2", "scnn3", "scnn4", "ebli", "bunch", "gcn"}
KnownModels == {"scone", "scnn2", "scnn3", "scnn4", "ebli", "bunch"}

\* hops=(1,2) in train_model's call of data_setup
Hops == <<1, 2>>

Cx == ComplexOf(dataset)
Fmat == Diag(flips)

\* no forward call is in progress
FwdIdle ==
    /\ fpc = "idle"
    /\ ferr = ""
    /\ weights = <<>>
    /\ example = 0
    /\ last_node = 0
    /\ flow = Zeros(0, 1)
    /\ cur_out = <<>>
    /\ layer = 0
    /\ n_matmul = 0
    /\ preact = Zeros(0, 1)
    /\ layer_in = Zeros(0, 1)
    /\ used = <<>>
    /\ logits = Zeros(0, 1)
    /\ out = [num |-> <<>>, den |-> 0]
    /\ calls = 0
    /\ first = <<>>
    /\ w_reads = <<>>

(***************************************************************************)
(* The run: train_model calling data_setup.                                *)
(***************************************************************************)
RunInit ==
    /\ HYPERPARAMS \in [model : Models, k1_scnn : {2}, k2_scnn : {2},
                        flip_edges : {0, 1}, load_data : {0, 1},
                        regional : {0, 1}, reverse : {0, 1},
                        load_model : {0, 1}, markov : {0, 1}]
    /\ dataset \in 1..MaxExamples
    /\ pc = "ds_flip"
    /\ err = ""
    /\ n_loads = 0
    /\ generated = FALSE
    /\ flips = <<>>
    /\ hop = 1
    /\ L1_lower = Zeros(0, 0)
    /\ L1_upper = Zeros(0, 0)
    /\ shifts = <<>>
    /\ nbrhoods = <<>>
    /\ B1_jax = Zeros(0, 0)
    /\ n_nbrs = <<>>
    /\ inputs_all = <<>>
    /\ train_mask = <<>>
    /\ test_mask = <<>>
    /\ model_func = ""
    /\ n_train = 0
    /\ n_eval = 0
    /\ prefixes = <<>>
    /\ prefix_src = ""
    /\ rev_inputs = <<>>
    /\ FwdIdle
    /\ scnn_defaults = [k1 |-> HYPERPARAMS.k1_scnn, k2 |-> HYPERPARAMS.k2_scnn]

\* data_setup, lines 310-315: draw F from the edges of the 1-hop dataset
FlipEdges ==
    /\ UNCHANGED fwd_vars
    /\ UNCHANGED <<prefixes, prefix_src, rev_inputs>>
    /\ pc = "ds_flip"
    /\ IF HYPERPARAMS.flip_edges # 0
       THEN /\ n_loads' = n_loads + 1
            /\ flips' \in FlipChoices(Cx.B1.cols)
       ELSE UNCHANGED <<n_loads, flips>>
    /\ pc' = "ds_generate"
    /\ UNCHANGED <<HYPERPARAMS, dataset, err, generated, hop, L1_lower, L1_upper,
                   shifts, nbrhoods, B1_jax, n_nbrs, inputs_all, train_mask,
                   test_mask, model_func, n_train, n_eval>>

\* data_setup, lines 318-321: generate a dataset and raise
GenerateData ==
    /\ UNCHANGED fwd_vars
    /\ UNCHANGED <<prefixes, prefix_src, rev_inputs>>
    /\ pc = "ds_generate"
    /\ IF HYPERPARAMS.load_data = 0
       THEN /\ generated' = TRUE
            /\ err' = "Data generation done"
            /\ pc' = "raised"
       ELSE /\ pc' = "ds_hop"
            /\ UNCHANGED <<generated, err>>
    /\ UNCHANGED <<HYPERPARAMS, dataset, n_loads, flips, hop, L1_lower, L1_upper,
                   shifts, nbrhoods, B1_jax, n_nbrs, inputs_all, train_mask,
                   test_mask, model_func, n_train, n_eval>>

\* data_setup, lines 324-369: one iteration of the loop over hops
LoadHop ==
    /\ UNCHANGED fwd_vars
    /\ UNCHANGED <<prefixes, prefix_src, rev_inputs>>
    /\ pc = "ds_hop"
    /\ LET flip == HYPERPARAMS.flip_edges
           l == IF flip # 0 THEN conjugate(Fmat, lower_of(Cx.B1)) ELSE lower_of(Cx.B1)
           u == IF flip # 0 THEN conjugate(Fmat, upper_of(Cx.B2)) ELSE upper_of(Cx.B2)
           r == define_shifts(HYPERPARAMS.model, l, u, Cx.B1, Cx.B2)
       IN  /\ n_loads' = n_loads + 1
           /\ inputs_all' = Append(inputs_all,
                  [sel |-> "None",
                   last_nodes |-> [i \in 1..dataset |-> LastNodeOf(dataset, i - 1)],
                   X |-> flows_of(dataset, 0, Fmat)])
           /\ train_mask' = loaded_train_mask(dataset)
           /\ test_mask' = loaded_test_mask(dataset)
           /\ L1_lower' = l
           /\ L1_upper' = u
           /\ IF r.raised
              THEN /\ err' = "invalid model type"
                   /\ pc' = "raised"
                   /\ UNCHANGED <<shifts, hop>>
              ELSE /\ shifts' = r.shifts
                   /\ hop' = hop + 1
                   /\ pc' = IF hop = Len(Hops) THEN "ds_nbrhoods" ELSE "ds_hop"
                   /\ err' = err
    /\ UNCHANGED <<HYPERPARAMS, dataset, generated, flips, nbrhoods, B1_jax,
                   n_nbrs, model_func, n_train, n_eval>>

\* data_setup, lines 371-420: neighbourhoods, B1_jax, flipped flows, return
Neighborhoods ==
    /\ UNCHANGED fwd_vars
    /\ UNCHANGED rev_inputs
    /\ pc = "ds_nbrhoods"
    /\ \E loaded \in BOOLEAN :
          IF loaded
          THEN /\ prefixes' = cached_prefixes(dataset)
               /\ prefix_src' = "cache"
          ELSE /\ prefixes' = recompute_prefixes(inputs_all[1].X, edges_of(Cx.B1),
                                                 inputs_all[1].last_nodes)
               /\ prefix_src' = "recomputed"
    /\ LET flip == HYPERPARAMS.flip_edges
       IN  /\ nbrhoods' = nbrhoods_of(Cx.nbrs, max_degree_of(Cx.nbrs))
           /\ n_nbrs' = [i \in 1..dataset |->
                           Cardinality(Cx.nbrs[inputs_all[1].last_nodes[i] + 1])]
           /\ B1_jax' = B1_jax_of(Cx.B1, flip, Fmat)
           /\ inputs_all' = [h \in 1..Len(inputs_all) |->
                  [inputs_all[h] EXCEPT
                      !.X = flows_of(dataset, flip, Fmat),
                      !.sel = IF HYPERPARAMS.model # "bunch"
                              THEN "Bconds_func" ELSE "nbrhoods"]]
    /\ pc' = "tm_markov"
    /\ UNCHANGED <<HYPERPARAMS, dataset, err, n_loads, generated, flips, hop,
                   L1_lower, L1_upper, shifts, train_mask, test_mask, model_func,
                   n_train, n_eval>>

\* train_model, lines 437-534: the Markov experiments, which end the run
MarkovModel ==
    /\ UNCHANGED fwd_vars
    /\ UNCHANGED <<prefixes, prefix_src, rev_inputs>>
    /\ pc = "tm_markov"
    /\ IF HYPERPARAMS.markov = 1
       THEN /\ err' = "Exception"
            /\ pc' = "raised"
       ELSE /\ pc' = "tm_select"
            /\ UNCHANGED err
    /\ UNCHANGED <<HYPERPARAMS, dataset, n_loads, generated, flips, hop, L1_lower,
                   L1_upper, shifts, nbrhoods, B1_jax, n_nbrs, inputs_all,
                   train_mask, test_mask, model_func, n_train, n_eval>>

\* train_model, lines 537-552: pick the forward function
SelectModel ==
    /\ UNCHANGED fwd_vars
    /\ UNCHANGED <<prefixes, prefix_src, rev_inputs>>
    /\ pc = "tm_select"
    /\ LET f == select_model_func(HYPERPARAMS.model)
       IN  IF f = ""
           THEN /\ err' = "invalid model"
                /\ pc' = "raised"
                /\ UNCHANGED model_func
           ELSE /\ model_func' = f
                /\ pc' = "tm_masks"
                /\ UNCHANGED err
    /\ UNCHANGED <<HYPERPARAMS, dataset, n_loads, generated, flips, hop, L1_lower,
                   L1_upper, shifts, nbrhoods, B1_jax, n_nbrs, inputs_all,
                   train_mask, test_mask, n_train, n_eval>>

\* train_model, lines 555-564: scone.setup, then the regional masks
RegionalMasks ==
    /\ UNCHANGED fwd_vars
    /\ UNCHANGED <<prefixes, prefix_src, rev_inputs>>
    /\ pc = "tm_masks"
    /\ IF HYPERPARAMS.regional # 0
       THEN /\ train_mask' = regional_train_mask(Len(inputs_all[1].X))
            /\ test_mask' = regional_test_mask(Len(inputs_all[1].X))
       ELSE UNCHANGED <<train_mask, test_mask>>
    /\ pc' = "tm_train"
    /\ UNCHANGED <<HYPERPARAMS, dataset, err, n_loads, generated, flips, hop,
                   L1_lower, L1_upper, shifts, nbrhoods, B1_jax, n_nbrs,
                   inputs_all, model_func, n_train, n_eval>>

\* train_model, lines 573-602: test a loaded model, or train and save one
TrainOrLoad ==
    /\ UNCHANGED fwd_vars
    /\ UNCHANGED <<prefixes, prefix_src, rev_inputs>>
    /\ pc = "tm_train"
    /\ IF HYPERPARAMS.load_model # 0
       THEN /\ n_eval' = n_eval + 1
            /\ UNCHANGED n_train
       ELSE /\ n_train' = n_train + 1
            /\ UNCHANGED n_eval
    /\ pc' = "tm_test"
    /\ UNCHANGED <<HYPERPARAMS, dataset, err, n_loads, generated, flips, hop,
                   L1_lower, L1_upper, shifts, nbrhoods, B1_jax, n_nbrs,
                   inputs_all, train_mask, test_mask, model_func>>

\* train_model, lines 604-610: the standard test and the 2-target accuracies
StandardTest ==
    /\ UNCHANGED fwd_vars
    /\ UNCHANGED <<prefixes, prefix_src, rev_inputs>>
    /\ pc = "tm_test"
    /\ n_eval' = n_eval + 3
    /\ pc' = IF HYPERPARAMS.reverse # 0 THEN "tm_reverse" ELSE "done"
    /\ UNCHANGED <<HYPERPARAMS, dataset, err, n_loads, generated, flips, hop,
                   L1_lower, L1_upper, shifts, nbrhoods, B1_jax, n_nbrs,
                   inputs_all, train_mask, test_mask, model_func, n_train>>

\* train_model, lines 613-620: the reverse experiment
ReverseTest ==
    /\ UNCHANGED fwd_vars
    /\ UNCHANGED <<prefixes, prefix_src>>
    /\ pc = "tm_reverse"
    /\ rev_inputs' = [sel |-> inputs_all[1].sel,
                      last_nodes |-> [i \in 1..dataset |-> RevLastNodeOf(dataset, i - 1)],
                      X |-> [i \in 1..dataset |-> RevFlowOf(dataset, i - 1)]]
    /\ n_eval' = n_eval + 1
    /\ pc' = "done"
    /\ UNCHANGED <<HYPERPARAMS, dataset, err, n_loads, generated, flips, hop,
                   L1_lower, L1_upper, shifts, nbrhoods, B1_jax, n_nbrs,
                   inputs_all, train_mask, test_mask, model_func, n_train>>

RunNext ==
    \/ FlipEdges
    \/ GenerateData
    \/ LoadHop
    \/ Neighborhoods
    \/ MarkovModel
    \/ SelectModel
    \/ RegionalMasks
    \/ TrainOrLoad
    \/ StandardTest
    \/ ReverseTest

Spec == RunInit /\ [][RunNext]_vars

\* the run is one sequential thread: it takes its next step as long as it
\* has one, and stops only at the end of train_model or at an exception
SpecLive == RunInit /\ [][RunNext]_vars /\ WF_vars(RunNext)


(***************************************************************************)
(* One call of the selected forward function on the data data_setup        *)
(* returned, as scone.train / scone.test make it for every example.        *)
(***************************************************************************)
\* the values data_setup returns to train_model for the configuration H,
\* the dataset d and the sign vector f
after_setup(H, d, f) ==
    LET c == ComplexOf(d)
        flip == H.flip_edges
        Fm == Diag(f)
        l == IF flip # 0 THEN conjugate(Fm, lower_of(c.B1)) ELSE lower_of(c.B1)
        u == IF flip # 0 THEN conjugate(Fm, upper_of(c.B2)) ELSE upper_of(c.B2)
        lasts == [i \in 1..d |-> LastNodeOf(d, i - 1)]
    IN  [L1_lower |-> l, L1_upper |-> u,
         shifts |-> define_shifts(H.model, l, u, c.B1, c.B2).shifts,
         nbrhoods |-> nbrhoods_of(c.nbrs, max_degree_of(c.nbrs)),
         B1_jax |-> B1_jax_of(c.B1, flip, Fm),
         n_nbrs |-> [i \in 1..d |-> Cardinality(c.nbrs[lasts[i] + 1])],
         inputs_all |-> [h \in 1..Len(Hops) |->
                            [sel |-> IF H.model # "bunch"
                                     THEN "Bconds_func" ELSE "nbrhoods",
                             last_nodes |-> lasts, X |-> flows_of(d, flip, Fm)]]]

\* the values of k1_scnn = k2_scnn tried for each model: the default 2 and
\* the order the function's comment names
ScnnOrders(model) ==
    CASE model = "scnn3" -> {2, 3}
      [] model = "scnn4" -> {2, 4}
      [] OTHER -> {2}

FwdInit ==
    /\ HYPERPARAMS \in [model : KnownModels, k1_scnn : {2, 3, 4}, k2_scnn : {2, 3, 4},
                        flip_edges : {0, 1}, load_data : {1},
                        regional : {0}, reverse : {0}, load_model : {0},
                        markov : {0}]
    /\ HYPERPARAMS.k1_scnn = HYPERPARAMS.k2_scnn
    /\ HYPERPARAMS.k1_scnn \in ScnnOrders(HYPERPARAMS.model)
    /\ dataset \in {MaxExamples - 1, MaxExamples}
    /\ flips \in IF HYPERPARAMS.flip_edges # 0
                 THEN FlipChoices(ComplexOf(dataset).B1.cols) ELSE {<<>>}
    /\ pc = "tm_train"
    /\ err = ""
    /\ n_loads = Len(Hops) + (IF HYPERPARAMS.flip_edges # 0 THEN 1 ELSE 0)
    /\ generated = FALSE
    /\ hop = Len(Hops) + 1
    /\ LET r == after_setup(HYPERPARAMS, dataset, flips)
       IN  /\ L1_lower = r.L1_lower
           /\ L1_upper = r.L1_upper
           /\ shifts = r.shifts
           /\ nbrhoods = r.nbrhoods
           /\ B1_jax = r.B1_jax
           /\ n_nbrs = r.n_nbrs
           /\ inputs_all = r.inputs_all
    /\ train_mask = loaded_train_mask(dataset)
    /\ test_mask = loaded_test_mask(dataset)
    /\ model_func = select_model_func(HYPERPARAMS.model)
    /\ n_train = 0
    /\ n_eval = 0
    /\ prefixes = recompute_prefixes([i \in 1..dataset |-> FlowOf(dataset, i - 1)],
                                     edges_of(ComplexOf(dataset).B1),
                                     [i \in 1..dataset |-> LastNodeOf(dataset, i - 1)])
    /\ prefix_src = "recomputed"
    /\ rev_inputs = <<>>
    /\ fpc = "assert"
    /\ ferr = ""
    /\ \E n \in 0..MaxWeights, seed \in 0..MaxSeed :
          weights = [i \in 1..n |-> WeightAt(seed, i - 1)]
    /\ example \in 0..(Len(ComplexOf(dataset).flows) - 1)
    /\ last_node = inputs_all[1].last_nodes[example + 1]
    /\ flow = inputs_all[1].X[example + 1]
    /\ cur_out = <<>>
    /\ layer = 0
    /\ n_matmul = 0
    /\ preact = Zeros(0, 1)
    /\ layer_in = Zeros(0, 1)
    /\ used = <<>>
    /\ logits = Zeros(0, 1)
    /\ out = [num |-> <<>>, den |-> 0]
    /\ scnn_defaults = [k1 |-> HYPERPARAMS.k1_scnn, k2 |-> HYPERPARAMS.k2_scnn]
    /\ calls = 1
    /\ first = <<>>
    /\ w_reads = <<>>

\* a variant that looks the order up in the global mapping at every call
K1_live == HYPERPARAMS.k1_scnn

\* k1 and k2 inside scnn_func_2/3/4: the parameter defaults, evaluated once,
\* when the def statement runs
K1 == scnn_defaults.k1
K2 == scnn_defaults.k2

\* n_layers = ...; assert n_layers % 1 == 0, 'wrong number of weights';
\* cur_out = flow
FwdAssert ==
    /\ fpc = "assert"
    /\ IF ~weights_ok(model_func, Len(weights), K1, K2)
       THEN /\ fpc' = "raised"
            /\ ferr' = "wrong number of weights"
            /\ UNCHANGED cur_out
       ELSE /\ fpc' = IF n_layers_of(model_func, Len(weights), K1, K2) = 0
                      THEN "project" ELSE "layer"
            /\ cur_out' = initial_signal(model_func, shifts, flow)
            /\ UNCHANGED ferr
    /\ UNCHANGED <<weights, example, last_node, flow, layer, n_matmul, preact,
                   layer_in, used, logits, out, scnn_defaults, calls, first,
                   w_reads>>
    /\ UNCHANGED run_vars

\* one iteration of for i in range(int(n_layers))
FwdLayer ==
    /\ fpc = "layer"
    /\ IF model_func = "bunch_func"
       THEN /\ cur_out' = bunch_layer(weights, shifts, cur_out, layer)
            /\ n_matmul' = n_matmul + 14
            /\ w_reads' = w_reads \o [o \in 1..7 |->
                                        [at |-> layer, widx |-> layer * 7 + o - 1]]
            /\ layer' = layer + 1
            /\ fpc' = IF layer + 1 = n_layers_of(model_func, Len(weights), K1, K2)
                      THEN "project" ELSE "layer"
            /\ UNCHANGED <<ferr, preact, layer_in, used>>
       ELSE LET r == tanh_layer(model_func, weights, shifts, cur_out[1], layer,
                                n_k_of(model_func, K1, K2))
            IN  /\ n_matmul' = n_matmul + r.matmuls
                /\ w_reads' = w_reads \o [t \in 1..Len(r.reads) |->
                                            [at |-> layer, widx |-> r.reads[t]]]
                /\ IF r.raised
                   THEN /\ fpc' = "raised"
                        /\ ferr' = "IndexError"
                        /\ UNCHANGED <<cur_out, layer, preact, layer_in, used>>
                   ELSE /\ cur_out' = <<r.cur>>
                        /\ preact' = r.preact
                        /\ layer_in' = cur_out[1]
                        /\ used' = r.used
                        /\ layer' = layer + 1
                        /\ fpc' = IF layer + 1 = n_layers_of(model_func, Len(weights), K1, K2)
                                  THEN "project" ELSE "layer"
                        /\ UNCHANGED ferr
    /\ UNCHANGED <<weights, example, last_node, flow, logits, out,
                   scnn_defaults, calls, first>>
    /\ UNCHANGED run_vars

\* logits = ...; return logits - logsumexp(logits)
FwdProject ==
    /\ fpc = "project"
    /\ logits' = logits_of(model_func, weights, cur_out, B1_jax, nbrhoods, last_node)
    /\ out' = log_softmax(logits')
    /\ n_matmul' = n_matmul + (IF model_func = "bunch_func" THEN 0 ELSE 2)
    /\ w_reads' = IF model_func = "bunch_func" THEN w_reads
                  ELSE Append(w_reads, [at |-> -1,
                                        widx |-> PyIndex(-1, Len(weights)) - 1])
    /\ fpc' = "returned"
    /\ UNCHANGED <<ferr, weights, example, last_node, flow, cur_out, layer, preact,
                   layer_in, used, scnn_defaults, calls, first>>
    /\ UNCHANGED run_vars

\* the values the caller may have rebound HYPERPARAMS['k1_scnn'] and
\* HYPERPARAMS['k2_scnn'] to between two calls
Rebindings == {2, 3, 4}

\* the same call once more: scone.test evaluates model_func on the same
\* inputs at line 589 and again at line 606.  The locals of the first call
\* are gone; the module-level mapping may have been rebound in between.
FwdCallAgain ==
    /\ fpc \in {"returned", "raised"}
    /\ calls = 1
    /\ calls' = 2
    /\ first' = [fpc |-> fpc, ferr |-> ferr, logits |-> logits, out |-> out]
    /\ \E k \in Rebindings :
          HYPERPARAMS' = [HYPERPARAMS EXCEPT !.k1_scnn = k, !.k2_scnn = k]
    /\ fpc' = "assert"
    /\ ferr' = ""
    /\ cur_out' = <<>>
    /\ layer' = 0
    /\ n_matmul' = 0
    /\ preact' = Zeros(0, 1)
    /\ layer_in' = Zeros(0, 1)
    /\ used' = <<>>
    /\ logits' = Zeros(0, 1)
    /\ out' = [num |-> <<>>, den |-> 0]
    /\ w_reads' = <<>>
    /\ UNCHANGED <<weights, example, last_node, flow, scnn_defaults>>
    /\ UNCHANGED <<dataset, pc, err, n_loads, generated, flips, hop, L1_lower,
                   L1_upper, shifts, nbrhoods, B1_jax, n_nbrs, inputs_all,
                   train_mask, test_mask, model_func, n_train, n_eval,
                   prefixes, prefix_src, rev_inputs>>

FwdNext ==
    \/ FwdAssert
    \/ FwdLayer
    \/ FwdProject
    \/ FwdCallAgain

SpecFwd == FwdInit /\ [][FwdNext]_vars

(***************************************************************************)
(* Properties of the run.                                                  *)
(***************************************************************************)
\* data_setup has returned
SetupReturned == pc \in {"tm_markov", "tm_select", "tm_masks", "tm_train", "tm_test", "tm_reverse", "done"}

\* the sign vector in force: all +1 when no flip was drawn
EffFlips == [e \in 1..Cx.B1.cols |-> IF HYPERPARAMS.flip_edges # 0 THEN flips[e] ELSE 1]

\* the boundary matrices of the complex as oriented for this run: B1 @ F, F @ B2
EffB1 == MatMul(Cx.B1, Diag(EffFlips))
EffB2 == MatMul(Diag(EffFlips), Cx.B2)

\* M^k by repeated multiplication
RECURSIVE MatPow(_, _)
MatPow(M, k) == IF k = 1 THEN M ELSE MatMul(M, MatPow(M, k - 1))

\* the operator table of the five tanh families
OperatorTable(model, lower, upper) ==
    CASE model = "scone" -> <<lower, upper>>
      [] model = "scnn2" -> [i \in 1..4 |-> IF i <= 2 THEN MatPow(lower, i) ELSE MatPow(upper, i - 2)]
      [] model = "scnn3" -> [i \in 1..6 |-> IF i <= 3 THEN MatPow(lower, i) ELSE MatPow(upper, i - 3)]
      [] model = "scnn4" -> [i \in 1..8 |-> IF i <= 4 THEN MatPow(lower, i) ELSE MatPow(upper, i - 4)]
      [] model = "ebli" -> [i \in 1..3 |-> MatPow(MatAdd(lower, upper), i)]

TanhModels == {"scone", "scnn2", "scnn3", "scnn4", "ebli"}

\* C1: once data_setup has built the shifts for one of the five tanh
\* families, the list is the family's row of the operator table, in order,
\* with lower = B1^T B1 and upper = B2 B2^T of the boundary matrices of the
\* run (B1, B2, re-oriented by F when flip_edges is set) and powers by
\* repeated products.
C1_OperatorTable ==
    (shifts # <<>> /\ HYPERPARAMS.model \in TanhModels) =>
        shifts = OperatorTable(HYPERPARAMS.model,
                               MatMul(Transpose(EffB1), EffB1),
                               MatMul(EffB2, Transpose(EffB2)))

C1_Witness ==
    /\ SetupReturned
    /\ HYPERPARAMS.model = "scnn3"
    /\ Len(shifts) = 6
    /\ shifts[3] # shifts[2]
    /\ shifts[6] # shifts[5]

\* C5 (as claimed): with flip_edges set, every operator data_setup returns is
\* F (the operator returned without flipping) F, for the tanh families and
\* for the edge-level operator S_11 of the decomposition family, and the
\* selector's matrix is (B1 with the zero row) F.
C5_FlipConjugatesAll ==
    (SetupReturned /\ HYPERPARAMS.flip_edges # 0) =>
        LET plain == define_shifts(HYPERPARAMS.model, lower_of(Cx.B1),
                                   upper_of(Cx.B2), Cx.B1, Cx.B2).shifts
            ks == IF HYPERPARAMS.model = "bunch" THEN {4} ELSE 1..Len(plain)
        IN  /\ Len(shifts) = Len(plain)
            /\ \A k \in ks : shifts[k] = conjugate(Fmat, plain[k])
            /\ B1_jax = MatMul(B1_jax_of(Cx.B1, 0, Fmat), Fmat)

\* C7: for every node n, Bconds_func(n) has max-degree rows; slot j below the
\* degree of n holds the row of the run's boundary matrix for the j-th
\* smallest neighbour of n, and every other slot holds the sentinel -1 and
\* resolves to the appended all-zero row, beyond the rows of B1.
C7_Selector ==
    SetupReturned =>
        \A n \in 0..(Len(Cx.nbrs) - 1) :
            LET R == Bconds_func(B1_jax, nbrhoods, n)
                nb == sorted(Cx.nbrs[n + 1])
            IN  /\ R.rows = max_degree_of(Cx.nbrs)
                /\ R.cols = Cx.B1.cols
                /\ \A j \in 1..R.rows :
                      IF j <= Len(nb)
                      THEN R.at[j] = [e \in 1..Cx.B1.cols |->
                                        Cx.B1.at[nb[j] + 1][e] * EffFlips[e]]
                      ELSE /\ nbrhoods[n + 1][j] = -1
                           /\ PyIndex(nbrhoods[n + 1][j], B1_jax.rows) = Cx.B1.rows + 1
                           /\ R.at[j] = [e \in 1..Cx.B1.cols |-> 0]

C7_Witness ==
    /\ SetupReturned
    /\ HYPERPARAMS.flip_edges # 0
    /\ \E e \in 1..Len(flips) : flips[e] = -1
    /\ \E n \in 1..Len(nbrhoods) : nbrhoods[n][Len(nbrhoods[n])] = -1
    /\ \E n \in 1..Len(nbrhoods) : nbrhoods[n][Len(nbrhoods[n])] # -1

\* C8 (as claimed): with an unknown model identifier the run ends in a
\* model-configuration error raised before any dataset is loaded and before
\* any shift operator is computed.
C8_FailsBeforeData ==
    (HYPERPARAMS.model \notin KnownModels
        /\ err \in {"invalid model type", "invalid model"}) =>
        /\ n_loads = 0
        /\ L1_lower = Zeros(0, 0)
        /\ L1_upper = Zeros(0, 0)

\* C8 (amended): with an unknown model identifier the run never leaves
\* data_setup and reaches no training or evaluation step; when load_data is
\* set it ends with 'invalid model type', raised in the first iteration of
\* the loop over hops after that hop's dataset is loaded and the lower and
\* upper Laplacians are computed, before the list of shifts is built; when
\* load_data is 0 it ends with 'Data generation done'.
C8_FailsInFirstHop ==
    HYPERPARAMS.model \notin KnownModels =>
        /\ pc \in {"ds_flip", "ds_generate", "ds_hop", "raised"}
        /\ n_train = 0 /\ n_eval = 0
        /\ shifts = <<>>
        /\ (pc = "raised" /\ HYPERPARAMS.load_data # 0) =>
              /\ err = "invalid model type"
              /\ hop = 1
              /\ n_loads = (IF HYPERPARAMS.flip_edges # 0 THEN 2 ELSE 1)
              /\ L1_lower = MatMul(Transpose(EffB1), EffB1)
              /\ L1_upper = MatMul(EffB2, Transpose(EffB2))
        /\ (pc = "raised" /\ HYPERPARAMS.load_data = 0) =>
              /\ err = "Data generation done"
              /\ generated

C8_Witness ==
    /\ HYPERPARAMS.model \notin KnownModels
    /\ pc = "raised"
    /\ err = "invalid model type"
    /\ n_loads = 2

\* C9: with the regional option, once train_model has built the masks, the
\* train mask selects exactly the indices i with i mod 3 = 1 and the test
\* mask exactly those with i mod 3 = 2, over all examples; no index is in
\* both and no index with i mod 3 = 0 is in either.
C9_RegionalSplit ==
    (HYPERPARAMS.regional # 0 /\ pc \in {"tm_train", "tm_test", "tm_reverse", "done"}) =>
        LET n == dataset
            Train == {i \in 0..(n - 1) : train_mask[i + 1] = 1}
            Test == {i \in 0..(n - 1) : test_mask[i + 1] = 1}
        IN  /\ Len(train_mask) = n /\ Len(test_mask) = n
            /\ Train = {i \in 0..(n - 1) : i % 3 = 1}
            /\ Test = {i \in 0..(n - 1) : i % 3 = 2}
            /\ Train \cap Test = {}
            /\ \A i \in 0..(n - 1) : i % 3 = 0 => i \notin Train \cup Test

C9_Witness ==
    /\ HYPERPARAMS.regional # 0
    /\ pc = "tm_train"
    /\ dataset >= 6
    /\ \E i \in 1..dataset : train_mask[i] = 1
    /\ \E i \in 1..dataset : test_mask[i] = 1
    /\ train_mask # loaded_train_mask(dataset)


\* C12: when the prefix cache cannot be loaded, the step of data_setup that
\* reaches the try statement still returns to train_model without an
\* exception, and the prefixes it returns are one per example: the path of
\* the example's 1-hop flow as loaded (not multiplied by F) ending in the
\* example's last node.
C12_PrefixFallback ==
    [][(pc = "ds_nbrhoods" /\ prefix_src' = "recomputed") =>
          /\ pc' = "tm_markov"
          /\ err' = ""
          /\ Len(prefixes') = dataset
          /\ Len(prefixes') = Len(inputs_all'[1].X)
          /\ \A i \in 1..dataset :
                /\ prefixes'[i] = flow_to_path(FlowOf(dataset, i - 1), edges_of(Cx.B1),
                                               LastNodeOf(dataset, i - 1))
                /\ prefixes'[i][Len(prefixes'[i])] = LastNodeOf(dataset, i - 1)
      ]_vars

C12_Witness ==
    /\ SetupReturned
    /\ prefix_src = "recomputed"
    /\ HYPERPARAMS.flip_edges # 0
    /\ dataset >= 3
    /\ inputs_all[1].X[1] # FlowOf(dataset, 0)
    /\ Len(prefixes[1]) = 3

\* C13 (as claimed): a run with load_data = 0 (and a known model, no Markov
\* experiments, load_model = 0) generates a dataset and later reaches the
\* training of a new model.
C13_GenerateThenTrain ==
    (/\ HYPERPARAMS.load_data = 0
     /\ HYPERPARAMS.load_model = 0
     /\ HYPERPARAMS.markov = 0
     /\ HYPERPARAMS.model \in KnownModels) ~> (generated /\ n_train > 0)

\* the parameters of a forward function that take a shift operator: all but
\* the weights, the selector, the current node and the flow
ShiftParams(fn) ==
    LET sg == signature(fn)
    IN  {p \in 1..Len(sg) :
            sg[p] \notin {"weights", "Bcond_func", "nbrhoods", "last_node", "flow"}}

\* the number of operators each family is said to take
CountTable(model) ==
    CASE model = "scone" -> 2
      [] model = "scnn2" -> 4
      [] model = "scnn3" -> 6
      [] model = "scnn4" -> 8
      [] model = "ebli" -> 3
      [] model = "bunch" -> 7

\* C15: data_setup and train_model take the same model identifiers: on the
\* dataset of any run (looked at when the run starts) every identifier one
\* chain rejects the other rejects, a run in which data_setup returned
\* never ends with 'invalid model', and once train_model has
\* selected the forward function, the list of shifts data_setup returned has
\* as many entries as the function has shift-operator parameters (2 for
\* scone, 4 / 6 / 8 for scnn2 / scnn3 / scnn4, 3 for ebli, 7 for bunch) and
\* in_axes has one entry for every parameter without a default.
C15_SetupAndTrainAgree ==
    /\ pc = "ds_flip" =>
          \A m \in Models :
              define_shifts(m, lower_of(Cx.B1), upper_of(Cx.B2), Cx.B1, Cx.B2).raised
                  <=> (select_model_func(m) = "")
    /\ err # "invalid model"
    /\ err = "invalid model type" => select_model_func(HYPERPARAMS.model) = ""
    /\ SetupReturned => select_model_func(HYPERPARAMS.model) # ""
    /\ pc \in {"tm_masks", "tm_train", "tm_test", "tm_reverse", "done"} =>
          /\ model_func = select_model_func(HYPERPARAMS.model)
          /\ Len(shifts) = CountTable(HYPERPARAMS.model)
          /\ Len(shifts) = Cardinality(ShiftParams(model_func))
          /\ Len(in_axes_of(shifts)) = Len(signature(model_func))
          /\ \A p \in 1..Len(signature(model_func)) :
                (in_axes_of(shifts)[p] = "0")
                    <=> (signature(model_func)[p] \in {"last_node", "flow"})

C15_Witness ==
    /\ pc = "tm_masks"
    /\ model_func = "scnn_func_3"
    /\ Len(shifts) = 6
    /\ Len(in_axes_of(shifts)) = 10

\* C16 (as claimed): with flip_edges set, every flow that data_setup returns
\* for the 1-hop and the 2-hop inputs, and every reversed flow passed to the
\* reverse test, is the flow of the dataset multiplied by F.
C16_AllFlowsFlipped ==
    HYPERPARAMS.flip_edges # 0 =>
        /\ SetupReturned =>
              \A h \in 1..Len(inputs_all) : \A i \in 1..dataset :
                  inputs_all[h].X[i] = MatMul(Fmat, FlowOf(dataset, i - 1))
        /\ rev_inputs # <<>> =>
              \A i \in 1..dataset :
                  rev_inputs.X[i] = MatMul(Fmat, RevFlowOf(dataset, i - 1))


(***************************************************************************)
(* Properties of a forward call.                                           *)
(***************************************************************************)
TanhFuncs == {"scone_func", "scnn_func_2", "scnn_func_3", "scnn_func_4", "ebli_func"}

\* true degree of the current node, and the padding width
Degree == Cardinality(Cx.nbrs[last_node + 1])
MaxDegree == max_degree_of(Cx.nbrs)

\* C2 (as claimed): a call whose weight list has a length minus one that is
\* not divisible by the number k of operators of the family (2, 4, 6, 8, 3,
\* 7) fails at the assertion, before any matrix product.
C2_RejectsByOperatorCount ==
    (fpc # "assert" /\ (Len(weights) - 1) % Len(shifts) # 0) =>
        /\ fpc = "raised"
        /\ ferr = "wrong number of weights"
        /\ n_matmul = 0

\* C2 (amended): the call fails with 'wrong number of weights' exactly when
\* len(weights) - 1 is not divisible by the number of weights a layer is
\* taken to have (3 in scone_func, 4 in ebli_func, 1 + k1 + k2 in
\* scnn_func_2/3/4), and in bunch_func when len(weights) itself is not
\* divisible by 7; the failure comes before any matrix product and before
\* the signal is initialised.
C2_RejectsByWeightsPerLayer ==
    fpc # "assert" =>
        LET n == Len(weights)
            bad == CASE model_func = "scone_func" -> (n - 1) % 3 # 0
                     [] model_func = "ebli_func" -> (n - 1) % 4 # 0
                     [] model_func = "bunch_func" -> n % 7 # 0
                     [] OTHER -> (n - 1) % (1 + K1 + K2) # 0
        IN  /\ bad <=> (ferr = "wrong number of weights")
            /\ ferr = "wrong number of weights" =>
                  /\ fpc = "raised"
                  /\ n_matmul = 0
                  /\ layer = 0
                  /\ cur_out = <<>>

C2_Witness ==
    /\ fpc = "raised"
    /\ ferr = "wrong number of weights"
    /\ model_func = "scone_func"
    /\ Len(weights) = 3

\* C3 (as claimed): after every layer of a tanh function, the pre-activation
\* is the own term plus one term for each operator passed to the function:
\* every operator is used exactly once, no two terms share a weight, and
\* the k-th operator is multiplied by the k-th weight of the layer.
C3_EveryOperatorOnce ==
    (model_func \in TanhFuncs /\ layer > 0) =>
        LET base == (layer - 1) * n_k_of(model_func, K1, K2)
            Ref[k \in 0..Len(shifts)] ==
                IF k = 0 THEN Scale(layer_in, weights[base + 1])
                ELSE MatAdd(Ref[k - 1],
                            Scale(MatMul(shifts[k], layer_in), weights[base + k + 1]))
        IN  /\ \A k \in 1..Len(shifts) :
                  Cardinality({t \in 1..Len(used) : used[t].op = k}) = 1
            /\ \A t, v \in 1..Len(used) : t # v => used[t].widx # used[v].widx
            /\ preact = Ref[Len(shifts)]

\* sum of num over the slots 1..n
SlotSum(num, n) == SumSeq(num, n)

\* C4 (as claimed): the returned probabilities sum to 1 over the valid
\* (non-padding) slots of the current node.
C4_ValidSlotsSumToOne ==
    fpc = "returned" => SlotSum(out.num, Degree) = out.den

\* C4 (amended): the returned vector has max-degree slots and its
\* probabilities, exp(logit) up to one common factor, sum to 1 over all of
\* them, padding slots included; over the valid slots alone the sum is 1
\* exactly when the node has maximum degree and is smaller otherwise.
C4_AllSlotsSumToOne ==
    fpc = "returned" =>
        /\ Len(out.num) = MaxDegree
        /\ logits.rows = MaxDegree
        /\ \A s, t \in 1..MaxDegree :
              logits.at[s][1] >= logits.at[t][1] =>
                  out.num[s] = out.num[t] * Pow2(logits.at[s][1] - logits.at[t][1])
        /\ \A s \in 1..MaxDegree : out.num[s] > 0
        /\ SlotSum(out.num, MaxDegree) = out.den
        /\ (SlotSum(out.num, Degree) = out.den) <=> (Degree = MaxDegree)
        /\ SlotSum(out.num, Degree) <= out.den

C4_Witness ==
    /\ fpc = "returned"
    /\ layer >= 1
    /\ Degree < MaxDegree
    /\ \E s, t \in 1..MaxDegree : out.num[s] # out.num[t]

\* what data_setup returns for the same run without flip_edges
Unflipped == after_setup([HYPERPARAMS EXCEPT !.flip_edges = 0], dataset, <<>>)

\* C6: with flip_edges set, the logits scone_func returns on the flipped
\* data (B1 F, F lower F, F upper F, flow F) equal the logits it returns
\* on the unflipped data of the same example, for every number of layers.
C6_FlipInvariant ==
    (fpc = "returned" /\ model_func = "scone_func" /\ HYPERPARAMS.flip_edges # 0) =>
        LET r == forward("scone_func", weights, K1, K2, Unflipped.shifts,
                         Unflipped.B1_jax, Unflipped.nbrhoods, last_node,
                         Unflipped.inputs_all[1].X[example + 1])
        IN  /\ r.status = "returned"
            /\ logits = r.logits

C6_Witness ==
    /\ fpc = "returned"
    /\ model_func = "scone_func"
    /\ HYPERPARAMS.flip_edges # 0
    /\ layer >= 2
    /\ flow # Unflipped.inputs_all[1].X[example + 1]
    /\ B1_jax # Unflipped.B1_jax
    /\ \E s, t \in 1..logits.rows : logits.at[s][1] # logits.at[t][1]

\* the first slot among the n valid ones that holds the largest value
ArgmaxValid(num, n) ==
    CHOOSE s \in 1..n : /\ \A t \in 1..n : num[t] <= num[s]
                        /\ \A t \in 1..(s - 1) : num[t] < num[s]

\* C10: the top-1 choice among the valid slots of the returned vector is
\* the one the same call makes when the neighbourhood table is padded to a
\* larger width, the neighbour sets being the same, for every family.
C10_PaddingInvariant ==
    fpc = "returned" =>
        \A x \in 1..MaxExtraPad :
            LET r == forward(model_func, weights, K1, K2, shifts, B1_jax,
                             nbrhoods_of(Cx.nbrs, MaxDegree + x), last_node, flow)
            IN  /\ r.status = "returned"
                /\ r.logits.rows = MaxDegree + x
                /\ ArgmaxValid(log_softmax(r.logits).num, Degree)
                      = ArgmaxValid(out.num, Degree)

C10_Witness ==
    /\ fpc = "returned"
    /\ model_func = "bunch_func"
    /\ layer >= 1
    /\ Degree < MaxDegree
    /\ ArgmaxValid(out.num, Degree) # 1

\* the arguments of the call in progress
CallArgs == <<weights, shifts, B1_jax, nbrhoods, inputs_all, last_node, flow>>

ScnnFuncs == {"scnn_func_2", "scnn_func_3", "scnn_func_4"}

\* C14 (as claimed): in scnn_func_2, scnn_func_3 and scnn_func_4, with k1 and
\* k2 at the defaults of hyperparams() (2 and 2, so n_k = 5), a call that
\* passed the weight-count assertion reads inside its layers only weight
\* indices in 0..len(weights)-2, no index in two different layers, and the
\* last weight only for the terminal projection.
C14_LayerWeightsDisjoint ==
    (/\ model_func \in ScnnFuncs
     /\ scnn_defaults = [k1 |-> 2, k2 |-> 2]
     /\ fpc # "assert"
     /\ ferr # "wrong number of weights") =>
        /\ \A t \in 1..Len(w_reads) :
              w_reads[t].at >= 0 => w_reads[t].widx \in 0..(Len(weights) - 2)
        /\ \A t, v \in 1..Len(w_reads) :
              (w_reads[t].at >= 0 /\ w_reads[v].at >= 0
                  /\ w_reads[t].at # w_reads[v].at) =>
                  w_reads[t].widx # w_reads[v].widx
        /\ \A t \in 1..Len(w_reads) :
              w_reads[t].widx = Len(weights) - 1 => w_reads[t].at = -1

=============================================================================
